---- MODULE Spec2Model ----
(***************************************************************************)
(* Model of the Vigilant C++ logger (Logger in logger.h / logger.cpp):     *)
(* producer threads calling debug/info/warn/error (logMessage), the single *)
(* worker thread running runBatcher, and threads calling shutdown().       *)
(*                                                                         *)
(* Time is kept as the distance to the worker's deadline: timeLeft is      *)
(* nextSendTime - steady_clock::now(), cut at 0.  The code only ever       *)
(* compares now with nextSendTime, so this is all of the clock it sees.    *)
(*                                                                         *)
(* A critical section that contains no blocking call (the push in          *)
(* logMessage, the check-and-set in shutdown, the wait predicate and the   *)
(* drain loop in runBatcher) is one step guarded by the mutex being free.  *)
(* The one section that blocks while holding queueMutex_, the terminal     *)
(* sendBatch of runBatcher, keeps mutex = "worker" across its steps.       *)
(***************************************************************************)
EXTENDS Integers, Sequences, FiniteSets, TLC

\* ----------------------------------------------------------------- bounds
\* Total number of debug/info/warn/error calls made in one behaviour.
MaxLogs == 3

\* batchInterval_ in clock ticks.
BatchInterval == 2

\* Values of maxBatchSize_ the Logger is constructed with.
BatchSizes == {2, 3}

\* Threads calling debug/info/warn/error.
Producers == {"p1", "p2"}

\* Threads calling shutdown() (one of them may be the destructor).
Callers == {"s1", "s2"}

\* Outcomes of the transport part of sendBatch: curl_easy_init returned
\* null, curl_easy_perform returned CURLE_OK, or it returned an error.
Outcomes == {"nohandle", "ok", "error"}

\* Attribute keys, attribute values and error texts of the log call whose
\* event is followed field by field, and the longest attribute list.
MaxAttrs == 2
Keys == {"service.name", "error", "user"}
AttrValues == {"a", "b"}
Absent == "<absent>"
NoError == "<nullptr>"
Errors == {NoError, "boom"}
AttrLists ==
  UNION {[1..n -> [key : Keys, value : AttrValues]] : n \in 0..MaxAttrs}

\* Constructor arguments name and endpoint.
ServiceNames == {"my_server", "cpp-test"}
EndpointArgs == {"ingress.vigilant.run", "example.com"}

VARIABLES
  serviceName,   \* serviceName_
  endpoint,      \* endpoint_
  insecure,      \* the constructor's argument insecure
  endpointArg,   \* the constructor's argument endpoint
  callAttrs,     \* logMessage's argument attrs
  callErr,       \* logMessage's argument err (its what(), or NoError)
  attributes,    \* lm.attributes of the event logMessage builds
  cpc,           \* position of the log call whose event is followed
  curlUrl,       \* CURLOPT_URL of the last transfer set up
  observe,       \* what is observed of a run: "history" (the log calls,
                 \* pushes and sends so far, for at most MaxLogs log
                 \* calls) or "age" (the age of the batch in progress,
                 \* for any number of log calls)
  batchAge,      \* ticks the worker has waited since the batch in
                 \* progress became non-empty
  noop,          \* noop_
  passthrough,   \* passthrough_
  maxBatchSize,  \* maxBatchSize_
  stopWorker,    \* stopWorker_
  logQueue,      \* logQueue_
  mutex,         \* queueMutex_: "free" or the thread holding it across steps
  signaled,      \* condition_: the blocked worker has been notified
  joinable,      \* workerThread_.joinable()
  curlGlobal,    \* curl_global_init calls not yet undone by curl_global_cleanup
  wpc,           \* the worker's position in runBatcher
  batch,         \* runBatcher's local vector
  timeLeft,      \* nextSendTime - now, cut at 0
  ppc,           \* each producer's position in logMessage
  spc,           \* each shutdown() caller's position
  calls,         \* log calls started so far
  returned,      \* log calls that have returned
  lines,         \* lines written to std::cout
  res,           \* sendBatch's transfer result ("none": no result yet)
  enqueued,      \* history: the events pushed, numbered in push order
  sent,          \* history: batches handed to sendBatch, in order
  preShutdown,   \* history: Len(enqueued) when shutdown() was first invoked
  stopper,       \* history: the caller that set stopWorker_
  joins,         \* history: completed workerThread_.join() calls
  burstState     \* history: clock ticks relative to the log calls

callVars == <<serviceName, endpoint, insecure, endpointArg, callAttrs,
              callErr, attributes, cpc, curlUrl>>

vars == <<callVars, observe, batchAge, noop, passthrough, maxBatchSize, stopWorker, logQueue, mutex,
          signaled, joinable, curlGlobal, wpc, batch, timeLeft, ppc, spc,
          calls, returned, lines, res, enqueued, sent, preShutdown, stopper,
          joins, burstState>>

config == <<noop, passthrough, maxBatchSize, observe>>
workerVars == <<wpc, batch, timeLeft, batchAge>>
producerVars == <<ppc, calls, returned, lines, burstState>>
callerVars == <<spc, preShutdown, stopper, joins, joinable, curlGlobal>>
queueVars == <<logQueue, enqueued>>
sendVars == <<sent, res>>

\* ---------------------------------------------------------------- helpers
Min(a, b) == IF a < b THEN a ELSE b

RECURSIVE Flatten(_)
Flatten(bs) ==
  IF bs = <<>> THEN <<>> ELSE Head(bs).batch \o Flatten(Tail(bs))

Range(s) == {s[i] : i \in 1..Len(s)}

\* ------------------------------------------------------- formatEndpoint
\* Lines 83-95.
FormatEndpointSchemesSwapped(ep, insec) ==
  IF insec THEN "https://" \o ep \o "/api/message"
  ELSE "http://" \o ep \o "/api/message"

FormatEndpoint(ep, insec) ==
  IF insec THEN "http://" \o ep \o "/api/message"
  ELSE "https://" \o ep \o "/api/message"

\* --------------------------------------------------------------- Init
\* Lines 19-38: the members after construction; the worker thread has
\* been created and has not run yet.
LoggerInit ==
  /\ noop \in BOOLEAN
  /\ passthrough \in BOOLEAN
  /\ maxBatchSize \in BatchSizes
  /\ stopWorker = FALSE
  /\ logQueue = <<>>
  /\ mutex = "free"
  /\ signaled = FALSE
  /\ joinable = TRUE
  /\ curlGlobal = 1
  /\ wpc = "start"
  /\ batch = <<>>
  /\ timeLeft = 0
  /\ ppc = [p \in Producers |-> "idle"]
  /\ spc = [s \in Callers |-> "idle"]
  /\ calls = 0
  /\ returned = 0
  /\ lines = 0
  /\ res = "none"
  /\ enqueued = <<>>
  /\ sent = <<>>
  /\ preShutdown = -1
  /\ stopper = "none"
  /\ joins = 0
  /\ burstState = "none"
  /\ batchAge = 0

\* No log call is followed field by field.
NoCall ==
  /\ callAttrs = <<>>
  /\ callErr = NoError
  /\ attributes = [k \in Keys |-> Absent]
  /\ cpc = "idle"
  /\ curlUrl = ""

\* The logger as LoggerBuilder's defaults construct it (lines 261-271),
\* with any of the flags and batch sizes.
Init ==
  /\ LoggerInit
  /\ observe = "history"
  /\ serviceName = "my_server"
  /\ endpointArg = "ingress.vigilant.run"
  /\ insecure = FALSE
  /\ endpoint = FormatEndpoint(endpointArg, insecure)
  /\ NoCall

\* ----------------------------------------------------------- observation
\* A counter of the history after one more occurrence, and a sequence of
\* the history after one more entry; neither is kept when the history is
\* not observed.
Counted(n) == IF observe = "history" THEN n + 1 ELSE n
Recorded(h, x) == IF observe = "history" THEN Append(h, x) ELSE h

\* The name of the next pushed event: its place in the order of pushes
\* (0 for every event when the history is not observed).
NextEvent == IF observe = "history" THEN Len(enqueued) + 1 ELSE 0

\* The age of the batch in progress after one more tick of the clock,
\* counted up to BatchInterval + 1.  Only the ticks the worker spends
\* blocked in wait_until with no wake-up pending are counted: the time it
\* takes to get the lock or to be scheduled is no part of the age.
AgedBatch ==
  IF observe = "age" /\ batch # <<>> /\ wpc = "blocked" /\ ~signaled
    THEN Min(batchAge + 1, BatchInterval + 1)
    ELSE batchAge

\* ------------------------------------------------- condition_.notify_all
\* notify_all wakes the worker if it is blocked in wait_until; a
\* notification with no waiter is lost.
NotifyAll == signaled \/ wpc = "blocked"

\* ------------------------------------------------------------ logMessage
\* Line 102: the early return of logMessage (and a faulty variant of it,
\* as of every definition below that a faulty variant precedes).
NoopNeverReturns == FALSE
NoopReturn == noop

NextBurst ==
  CASE burstState = "none" -> "open"
    [] burstState = "ticked" -> "broken"
    [] OTHER -> burstState

\* debug/info/warn/error -> logMessage, lines 102-118: return at once if
\* noop_, else build the event.
LogCall(p) ==
  /\ ppc[p] = "idle"
  /\ observe = "history" => calls < MaxLogs
  /\ calls' = Counted(calls)
  /\ burstState' = NextBurst
  /\ IF NoopReturn
       THEN returned' = Counted(returned) /\ UNCHANGED ppc
       ELSE ppc' = [ppc EXCEPT ![p] = "push"] /\ UNCHANGED returned
  /\ UNCHANGED <<config, callVars, stopWorker, mutex, signaled, workerVars, lines,
                 callerVars, queueVars, sendVars>>

\* Line 122: logQueue_ after the push of event e.
PushedQueueUnlessStopped(e) ==
  IF stopWorker THEN logQueue ELSE Append(logQueue, e)
PushedQueue(e) == Append(logQueue, e)

\* Lines 120-123: push under queueMutex_.  The pushed event is named by
\* its place in the order of pushes.  The queue holds at most MaxLogs
\* events (with at most MaxLogs log calls it never holds more).
Push(p) ==
  /\ ppc[p] = "push"
  /\ mutex = "free"
  /\ Len(logQueue) < MaxLogs
  /\ logQueue' = PushedQueue(NextEvent)
  /\ enqueued' = Recorded(enqueued, NextEvent)
  /\ ppc' = [ppc EXCEPT ![p] = "notify"]
  /\ UNCHANGED <<config, callVars, stopWorker, mutex, signaled, workerVars, calls,
                 returned, lines, burstState, callerVars, sendVars>>

\* Lines 124-126, 129-143: condition_.notify_all(), then logPassthrough
\* writes one line if passthrough_, and logMessage returns.
NotifyAndPassthrough(p) ==
  /\ ppc[p] = "notify"
  /\ signaled' = NotifyAll
  /\ lines' = IF passthrough THEN Counted(lines) ELSE lines
  /\ returned' = Counted(returned)
  /\ ppc' = [ppc EXCEPT ![p] = "idle"]
  /\ UNCHANGED <<config, callVars, stopWorker, mutex, logQueue, workerVars, calls,
                 burstState, callerVars, enqueued, sendVars>>

\* ------------------------------------------------------------- sendBatch
\* Line 242 (and the paths to it): the batch after sendBatch returns.
BatchKeptOnError(outcome) == IF outcome = "error" THEN batch ELSE <<>>
BatchAfterSend(outcome) == <<>>

\* sendBatch is entered with batch b: lines 191-194 return at once if it
\* is empty (the worker goes on at skip), else b is serialized and the
\* transfer starts (lines 196-232).
SendBatchDetached(b, trigger, sending, skip) ==
  /\ sent' = IF b = <<>> THEN sent
             ELSE Recorded(sent, [batch |-> b, trigger |-> trigger])
  /\ wpc' = skip
SendBatchCall(b, trigger, sending, skip) ==
  IF b = <<>>
    THEN wpc' = skip /\ UNCHANGED sent
    ELSE /\ sent' = Recorded(sent, [batch |-> b, trigger |-> trigger])
         /\ wpc' = sending

\* Lines 221-232: curl_easy_init fails, or curl_easy_perform returns.
TransferEnds ==
  /\ wpc \in {"sizesend", "timesend", "finalsend"}
  /\ res = "none"
  /\ res' \in Outcomes
  /\ UNCHANGED <<config, callVars, stopWorker, mutex, signaled, logQueue, workerVars,
                 producerVars, callerVars, enqueued, sent>>

\* Lines 233-243: a failed transfer is reported, the batch is cleared and
\* sendBatch returns.
\* After the size-triggered send (line 176) the time check follows.
SizeSendDone ==
  /\ wpc = "sizesend"
  /\ res # "none"
  /\ batch' = BatchAfterSend(res)
  /\ res' = "none"
  /\ wpc' = "timecheck"
  /\ UNCHANGED <<config, callVars, stopWorker, mutex, signaled, logQueue, timeLeft,
                 producerVars, callerVars, enqueued, sent>>
  /\ batchAge' = 0

\* After the time-triggered send (line 182) the deadline is set anew
\* (line 185).
TimeSendDone ==
  /\ wpc = "timesend"
  /\ res # "none"
  /\ batch' = BatchAfterSend(res)
  /\ res' = "none"
  /\ timeLeft' = BatchInterval
  /\ wpc' = "lock"
  /\ UNCHANGED <<config, callVars, stopWorker, mutex, signaled, logQueue,
                 producerVars, callerVars, enqueued, sent>>
  /\ batchAge' = 0

\* After the terminal send (line 162) break leaves the loop, which
\* releases the lock; the thread ends.
FinalSendDone ==
  /\ wpc = "finalsend"
  /\ res # "none"
  /\ batch' = BatchAfterSend(res)
  /\ res' = "none"
  /\ wpc' = "done"
  /\ mutex' = "free"
  /\ UNCHANGED <<config, callVars, stopWorker, signaled, logQueue, timeLeft,
                 producerVars, callerVars, enqueued, sent>>
  /\ batchAge' = 0

\* ------------------------------------------------------------ runBatcher
\* Line 156: the predicate of wait_until.
WaitPred == logQueue # <<>> \/ stopWorker

\* wait_until returns: its predicate holds, or the deadline has passed.
WaitOver == WaitPred \/ timeLeft = 0

\* Line 158: the terminal check.
StopWithoutDrain == stopWorker
TerminateWhenIdle == logQueue = <<>>
ShouldTerminate == stopWorker /\ logQueue = <<>>

\* Lines 167-171: how many events the drain loop moves.
DrainOneTooMany ==
  IF Len(batch) > maxBatchSize THEN 0
  ELSE Min(Len(logQueue), maxBatchSize + 1 - Len(batch))
DrainCount ==
  IF Len(batch) >= maxBatchSize THEN 0
  ELSE Min(Len(logQueue), maxBatchSize - Len(batch))

\* Lines 169-170: what the drain loop leaves in logQueue_.
RemainingQueueCleared == <<>>
RemainingQueue == SubSeq(logQueue, DrainCount + 1, Len(logQueue))

\* Line 174: the size trigger.
SizeTriggerOneEarly(b) == Len(b) + 1 >= maxBatchSize
SizeTriggerStrict(b) == Len(b) > maxBatchSize
SizeTrigger(b) == Len(b) >= maxBatchSize

\* Line 180: the time trigger.
TimeTriggerNever == FALSE
TimeTrigger == timeLeft = 0 /\ batch # <<>>

\* Line 150: the first deadline.
WorkerStart ==
  /\ wpc = "start"
  /\ timeLeft' = BatchInterval
  /\ wpc' = "lock"
  /\ UNCHANGED <<config, callVars, stopWorker, mutex, signaled, logQueue, batch,
                 producerVars, callerVars, enqueued, sendVars>>
  /\ UNCHANGED batchAge

\* Lines 154-156: the lock is taken, the predicate is false and the
\* deadline is ahead: wait_until releases the lock and blocks.
WorkerBlock ==
  /\ wpc = "lock"
  /\ mutex = "free"
  /\ ~WaitOver
  /\ wpc' = "blocked"
  /\ signaled' = FALSE
  /\ UNCHANGED <<config, callVars, stopWorker, mutex, logQueue, batch, timeLeft,
                 producerVars, callerVars, enqueued, sendVars>>
  /\ UNCHANGED batchAge

\* The blocked worker is woken by notify_all or by the deadline; it then
\* takes the lock again and evaluates the predicate again.
WorkerWake ==
  /\ wpc = "blocked"
  /\ signaled \/ timeLeft = 0
  /\ wpc' = "lock"
  /\ signaled' = FALSE
  /\ UNCHANGED <<config, callVars, stopWorker, mutex, logQueue, batch, timeLeft,
                 producerVars, callerVars, enqueued, sendVars>>
  /\ UNCHANGED batchAge

\* Lines 154-165: wait_until returns with the lock held, the terminal
\* check holds: the partial batch is sent with the lock still held, then
\* the loop is left.
WorkerTerminal ==
  /\ wpc = "lock"
  /\ mutex = "free"
  /\ WaitOver
  /\ ShouldTerminate
  /\ IF batch # <<>>
       THEN SendBatchCall(batch, "final", "finalsend", "done")
            /\ mutex' = "worker"
       ELSE wpc' = "done" /\ UNCHANGED <<mutex, sent>>
  /\ UNCHANGED <<config, callVars, stopWorker, signaled, logQueue, batch, timeLeft,
                 producerVars, callerVars, enqueued, res>>
  /\ UNCHANGED batchAge

\* Lines 154-177: wait_until returns with the lock held, the terminal
\* check fails: the drain loop runs, the lock is released, and a batch
\* that has reached maxBatchSize_ is sent.
WorkerDrain ==
  /\ wpc = "lock"
  /\ mutex = "free"
  /\ WaitOver
  /\ ~ShouldTerminate
  /\ batch' = batch \o SubSeq(logQueue, 1, DrainCount)
  /\ logQueue' = RemainingQueue
  /\ IF SizeTrigger(batch')
       THEN SendBatchCall(batch', "size", "sizesend", "timecheck")
       ELSE wpc' = "timecheck" /\ UNCHANGED sent
  /\ UNCHANGED <<config, callVars, stopWorker, mutex, signaled, timeLeft, producerVars,
                 callerVars, enqueued, res>>
  /\ batchAge' = IF batch = <<>> THEN 0 ELSE batchAge

\* Lines 179-185: the time trigger; without a send the deadline is set
\* anew at once.
WorkerTimeCheck ==
  /\ wpc = "timecheck"
  /\ IF TimeTrigger
       THEN /\ SendBatchCall(batch, "time", "timesend", "lock")
            /\ UNCHANGED timeLeft
       ELSE /\ wpc' = "lock"
            /\ timeLeft' = BatchInterval
            /\ UNCHANGED sent
  /\ UNCHANGED <<config, callVars, stopWorker, mutex, signaled, logQueue, batch,
                 producerVars, callerVars, enqueued, res>>
  /\ UNCHANGED batchAge

\* -------------------------------------------------------------- shutdown
\* Line 69: the guard of the check-and-set.
NeverSeenStopped == FALSE
AlreadyStopped == stopWorker

\* Line 78: join() returns once the worker thread has ended.
JoinAtOnce == TRUE
JoinReturns == wpc = "done"

\* shutdown() (or ~Logger) is invoked.
ShutdownCall(s) ==
  /\ spc[s] = "idle"
  /\ spc' = [spc EXCEPT ![s] = "gate"]
  /\ preShutdown' = IF preShutdown = -1 THEN Len(enqueued) ELSE preShutdown
  /\ UNCHANGED <<config, callVars, stopWorker, mutex, signaled, logQueue, workerVars,
                 producerVars, stopper, joins, joinable, curlGlobal,
                 enqueued, sendVars>>

\* Lines 67-74: check-and-set under queueMutex_; return if already set.
ShutdownGate(s) ==
  /\ spc[s] = "gate"
  /\ mutex = "free"
  /\ IF AlreadyStopped
       THEN /\ spc' = [spc EXCEPT ![s] = "returned"]
            /\ UNCHANGED <<stopWorker, stopper>>
       ELSE /\ stopWorker' = TRUE
            /\ stopper' = s
            /\ spc' = [spc EXCEPT ![s] = "notify"]
  /\ UNCHANGED <<config, callVars, mutex, signaled, logQueue, workerVars, producerVars,
                 preShutdown, joins, joinable, curlGlobal, enqueued,
                 sendVars>>

\* Line 75: condition_.notify_all().
ShutdownNotify(s) ==
  /\ spc[s] = "notify"
  /\ signaled' = NotifyAll
  /\ spc' = [spc EXCEPT ![s] = "join"]
  /\ UNCHANGED <<config, callVars, stopWorker, mutex, logQueue, workerVars,
                 producerVars, preShutdown, stopper, joins, joinable,
                 curlGlobal, enqueued, sendVars>>

\* Lines 76-80: join the worker thread if it is joinable, then
\* curl_global_cleanup(); shutdown() returns.
ShutdownJoin(s) ==
  /\ spc[s] = "join"
  /\ IF joinable
       THEN /\ JoinReturns
            /\ joinable' = FALSE
            /\ joins' = joins + 1
       ELSE UNCHANGED <<joinable, joins>>
  /\ curlGlobal' = curlGlobal - 1
  /\ spc' = [spc EXCEPT ![s] = "returned"]
  /\ UNCHANGED <<config, callVars, stopWorker, mutex, signaled, logQueue, workerVars,
                 producerVars, preShutdown, stopper, enqueued, sendVars>>

\* ----------------------------------------------------------------- clock
\* steady_clock advances by one tick towards the deadline.
Tick ==
  /\ timeLeft > 0
  /\ timeLeft' = timeLeft - 1
  /\ burstState' = IF burstState = "open" THEN "ticked" ELSE burstState
  /\ UNCHANGED <<config, callVars, stopWorker, mutex, signaled, logQueue, wpc, batch,
                 ppc, calls, returned, lines, callerVars, enqueued, sendVars>>
  /\ batchAge' = AgedBatch

\* ------------------------------------------------------------------ Next
Next ==
  \/ \E p \in Producers : LogCall(p)
  \/ \E p \in Producers : Push(p)
  \/ \E p \in Producers : NotifyAndPassthrough(p)
  \/ WorkerStart
  \/ WorkerBlock
  \/ WorkerWake
  \/ WorkerTerminal
  \/ WorkerDrain
  \/ WorkerTimeCheck
  \/ TransferEnds
  \/ SizeSendDone
  \/ TimeSendDone
  \/ FinalSendDone
  \/ \E s \in Callers : ShutdownCall(s)
  \/ \E s \in Callers : ShutdownGate(s)
  \/ \E s \in Callers : ShutdownNotify(s)
  \/ \E s \in Callers : ShutdownJoin(s)
  \/ Tick

Spec == Init /\ [][Next]_vars

\* The worker thread is scheduled again and again, every transfer
\* returns, and the clock goes on.
WorkerStep ==
  \/ WorkerStart
  \/ WorkerBlock
  \/ WorkerWake
  \/ WorkerTerminal
  \/ WorkerDrain
  \/ WorkerTimeCheck
  \/ SizeSendDone
  \/ TimeSendDone
  \/ FinalSendDone

\* The logger of LoggerBuilder's flags (noop off, passthrough on), any
\* batch size, both producers and one thread that calls shutdown().
FairInit ==
  /\ Init
  /\ ~noop
  /\ passthrough

FairNext ==
  \/ \E p \in Producers : LogCall(p)
  \/ \E p \in Producers : Push(p)
  \/ \E p \in Producers : NotifyAndPassthrough(p)
  \/ WorkerStep
  \/ TransferEnds
  \/ ShutdownCall("s1")
  \/ ShutdownGate("s1")
  \/ ShutdownNotify("s1")
  \/ ShutdownJoin("s1")
  \/ Tick

FairSpec ==
  /\ FairInit
  /\ [][FairNext]_vars
  /\ WF_vars(WorkerStep)
  /\ WF_vars(TransferEnds)
  /\ WF_vars(Tick)

\* The logger of LoggerBuilder's flags (noop off, passthrough on) with
\* producers that may go on logging for ever: the histories are not kept,
\* the age of the batch in progress is.  The threads inside shutdown()
\* are scheduled again and again as well.
ShutdownStep ==
  \E s \in Callers : ShutdownGate(s) \/ ShutdownNotify(s) \/ ShutdownJoin(s)

SteadyInit ==
  /\ LoggerInit
  /\ ~noop
  /\ passthrough
  /\ observe = "age"
  /\ serviceName = "my_server"
  /\ endpointArg = "ingress.vigilant.run"
  /\ insecure = FALSE
  /\ endpoint = FormatEndpoint(endpointArg, insecure)
  /\ NoCall

SteadySpec ==
  /\ SteadyInit
  /\ [][Next]_vars
  /\ WF_vars(WorkerStep)
  /\ WF_vars(TransferEnds)
  /\ WF_vars(Tick)
  /\ WF_vars(ShutdownStep)

\* ======================================================================
\* One log call and one transfer set-up, followed field by field
\* ======================================================================
\* std::map's operator[] assignment, for each attribute in order
\* (lines 111-114).
RECURSIVE PutAll(_, _)
PutAll(m, attrs) ==
  IF attrs = <<>> THEN m
  ELSE PutAll([m EXCEPT ![Head(attrs).key] = Head(attrs).value], Tail(attrs))

BuildAttributesReservedLast(name, attrs, err) ==
  LET m1 == PutAll([k \in Keys |-> Absent], attrs)
      m2 == IF err # NoError THEN [m1 EXCEPT !["error"] = err] ELSE m1
  IN  [m2 EXCEPT !["service.name"] = name]

\* Lines 110-118: lm.attributes, a map that starts empty.
BuildAttributes(name, attrs, err) ==
  LET m1 == [[k \in Keys |-> Absent] EXCEPT !["service.name"] = name]
      m2 == PutAll(m1, attrs)
  IN  IF err # NoError THEN [m2 EXCEPT !["error"] = err] ELSE m2

\* logMessage up to the push (lines 102-118).
BuildEvent ==
  /\ cpc = "idle"
  /\ ~noop
  /\ \E attrs \in AttrLists, err \in Errors :
       /\ callAttrs' = attrs
       /\ callErr' = err
       /\ attributes' = BuildAttributes(serviceName, attrs, err)
  /\ cpc' = "built"
  /\ UNCHANGED <<serviceName, endpoint, insecure, endpointArg, curlUrl>>
  /\ UNCHANGED <<config, stopWorker, logQueue, mutex, signaled, workerVars,
                 producerVars, callerVars, enqueued, sendVars>>

\* The event is moved into the queue and the call returns (lines 120-127).
CallReturn ==
  /\ cpc = "built"
  /\ cpc' = "idle"
  /\ callAttrs' = <<>>
  /\ callErr' = NoError
  /\ attributes' = [k \in Keys |-> Absent]
  /\ UNCHANGED <<serviceName, endpoint, insecure, endpointArg, curlUrl>>
  /\ UNCHANGED <<config, stopWorker, logQueue, mutex, signaled, workerVars,
                 producerVars, callerVars, enqueued, sendVars>>

\* sendBatch sets the transfer's URL (line 227).
CurlSetUrl ==
  /\ curlUrl' = endpoint
  /\ curlUrl' # curlUrl
  /\ UNCHANGED <<serviceName, endpoint, insecure, endpointArg, callAttrs,
                 callErr, attributes, cpc>>
  /\ UNCHANGED <<config, stopWorker, logQueue, mutex, signaled, workerVars,
                 producerVars, callerVars, enqueued, sendVars>>

\* Lines 19-38 with any constructor arguments: serviceName_ is the
\* argument name and endpoint_ is formatEndpoint's result (line 28).
CallInit ==
  /\ LoggerInit
  /\ observe = "history"
  /\ serviceName \in ServiceNames
  /\ endpointArg \in EndpointArgs
  /\ insecure \in BOOLEAN
  /\ endpoint = FormatEndpoint(endpointArg, insecure)
  /\ NoCall

CallNext ==
  \/ BuildEvent
  \/ CallReturn
  \/ CurlSetUrl

CallSpec == CallInit /\ [][CallNext]_vars

\* ======================================================================
\* Properties
\* ======================================================================
\* The events handed to sendBatch so far, in order.
SentSeq == Flatten(sent)
SentEvents == Range(SentSeq)

\* A sendBatch call is in progress.
Sending == wpc \in {"sizesend", "timesend", "finalsend"}

\* All log calls were issued at one instant of the clock.
Burst == burstState \in {"open", "ticked"}

\* Every log call has returned, nothing is left to flush, and the worker
\* waits: the state the logger is in after the producers have been silent
\* for longer than batchInterval_ (no shutdown).
Quiescent ==
  /\ ~noop
  /\ preShutdown = -1
  /\ calls > 0
  /\ returned = calls
  /\ wpc = "blocked"
  /\ logQueue = <<>>
  /\ batch = <<>>

\* C1: once the worker thread has terminated (and so once the shutdown()
\* caller that joined it has returned), every event pushed before
\* shutdown() was first invoked has been handed to sendBatch.
C1_ShutdownOrdering ==
  (wpc = "done" \/ (stopper # "none" /\ spc[stopper] = "returned"))
    => \A i \in 1..preShutdown : enqueued[i] \in SentEvents

C1_Witness ==
  /\ wpc = "done"
  /\ preShutdown >= 2
  /\ Len(enqueued) > preShutdown
  /\ \E i \in 1..Len(sent) : sent[i].trigger = "final"

\* C2 as stated: N log calls issued at one instant, 0 < N < maxBatchSize_,
\* then silence: exactly one batch has been sent, holding those N events.
C2_ExactlyOneBatch ==
  (Quiescent /\ Burst /\ calls < maxBatchSize)
    => (Len(sent) = 1 /\ sent[1].batch = enqueued)

\* C2 as amended: after N log calls, 0 < N < maxBatchSize_, and silence,
\* at least one batch has been sent, every batch was sent by the time
\* trigger and holds fewer than maxBatchSize_ events, and the batches
\* together hold exactly the N events, each once, in FIFO order.
C2_TimeFlush ==
  (Quiescent /\ calls < maxBatchSize)
    => /\ Len(enqueued) = calls
       /\ SentSeq = enqueued
       /\ Len(sent) >= 1
       /\ \A i \in 1..Len(sent) :
            /\ sent[i].trigger = "time"
            /\ Len(sent[i].batch) >= 1
            /\ Len(sent[i].batch) < maxBatchSize

C2_Witness ==
  /\ Quiescent
  /\ calls = 2
  /\ maxBatchSize = 3
  /\ Len(sent) = 1
  /\ sent[1].batch = <<1, 2>>

\* C3 as stated: in a burst of N >= maxBatchSize_ log calls (no shutdown),
\* the first batch handed to sendBatch holds exactly the first
\* maxBatchSize_ events pushed.
C3_FirstBatchFull ==
  (~noop /\ preShutdown = -1 /\ Burst /\ calls >= maxBatchSize
     /\ Len(sent) >= 1)
    => /\ Len(sent[1].batch) = maxBatchSize
       /\ sent[1].batch = SubSeq(enqueued, 1, Len(sent[1].batch))

\* C3 as amended: the first batch handed to sendBatch holds the first k
\* events pushed, in push order, for some 1 <= k <= maxBatchSize_; k is
\* maxBatchSize_ exactly when the size trigger sent it, and smaller when
\* the time trigger or the terminal flush sent it first.
C3_FirstBatchPrefix ==
  Len(sent) >= 1
    => /\ Len(sent[1].batch) >= 1
       /\ Len(sent[1].batch) <= maxBatchSize
       /\ sent[1].batch = SubSeq(enqueued, 1, Len(sent[1].batch))
       /\ (sent[1].trigger = "size" <=> Len(sent[1].batch) = maxBatchSize)

C3_Witness ==
  /\ maxBatchSize = 2
  /\ Burst
  /\ Len(sent) = 2
  /\ sent[1] = [batch |-> <<1, 2>>, trigger |-> "size"]
  /\ sent[2] = [batch |-> <<3>>, trigger |-> "time"]

\* C4: among any number of shutdown() calls exactly one passes the
\* check-and-set and performs the stop sequence, so the worker is joined
\* at most once and curl_global_cleanup runs at most once (exactly once
\* when all calls have returned); a call that finds the flag set returns
\* and changes nothing.
C4_ShutdownOnce ==
  /\ [](/\ \A s \in Callers : spc[s] \in {"notify", "join"} => s = stopper
        /\ joins <= 1
        /\ curlGlobal \in {0, 1}
        /\ (\A s \in Callers : spc[s] = "returned")
             => (joins = 1 /\ curlGlobal = 0 /\ ~joinable))
  /\ [][\A s \in Callers :
          (spc[s] = "gate" /\ spc'[s] = "returned")
            => UNCHANGED <<config, callVars, stopWorker, logQueue, mutex, signaled,
                           joinable, curlGlobal, workerVars, producerVars,
                           queueVars, sendVars, joins, stopper>>]_vars

C4_Witness ==
  /\ \A s \in Callers : spc[s] = "returned"
  /\ joins = 1
  /\ curlGlobal = 0

\* C5 as stated: whenever a shutdown() call has returned, the worker
\* thread has terminated.
C5_EveryCallerWaits ==
  \A s \in Callers : spc[s] = "returned" => wpc = "done"

\* C5 as amended: when the shutdown() call that performs the stop sequence
\* (the first to pass the check-and-set) returns, the worker thread has
\* terminated, has been joined and no send is in progress; a call that
\* finds the flag already set returns at once, possibly while the worker
\* still runs.
C5_StopperWaits ==
  (stopper # "none" /\ spc[stopper] = "returned")
    => (wpc = "done" /\ ~Sending /\ res = "none" /\ ~joinable)

C5_Witness ==
  /\ stopper # "none"
  /\ spc[stopper] = "returned"
  /\ \E s \in Callers : s # stopper /\ spc[s] = "returned"
  /\ sent # <<>>
  /\ sent[Len(sent)].trigger = "final"

\* C6: while the worker executes sendBatch it does not hold queueMutex_.
C6_NoSendUnderLock ==
  Sending => mutex # "worker"

\* C7: with passthrough_ set, every log call that has returned has written
\* exactly one line, whatever noop_ is.
C7_PassthroughAlways ==
  passthrough => lines = returned

\* C8: with noop_ set nothing is ever pushed, drained or sent, also not by
\* the terminal flush of shutdown().
C8_NoopSendsNothing ==
  noop => /\ logQueue = <<>>
          /\ enqueued = <<>>
          /\ batch = <<>>
          /\ sent = <<>>
          /\ ~Sending

C8_Witness ==
  /\ noop
  /\ calls >= 2
  /\ returned = calls
  /\ wpc = "done"
  /\ \A s \in Callers : spc[s] = "returned"

\* C9: whatever the result of the transfer, when sendBatch returns the
\* batch is empty, the queue is as it was and the worker goes on with its
\* loop; no event is handed to sendBatch twice and no event handed to it
\* is in the queue or in the batch again.
C9_FireAndForget ==
  /\ [](/\ \A i, j \in 1..Len(SentSeq) : SentSeq[i] = SentSeq[j] => i = j
        /\ Range(logQueue) \cap SentEvents = {}
        /\ ~Sending => Range(batch) \cap SentEvents = {})
  /\ [][(res # "none" /\ res' = "none")
          => /\ batch' = <<>>
             /\ logQueue' = logQueue
             /\ sent' = sent
             /\ wpc' = CASE wpc = "sizesend" -> "timecheck"
                         [] wpc = "timesend" -> "lock"
                         [] wpc = "finalsend" -> "done"]_vars

C9_Witness ==
  /\ res = "error"
  /\ wpc = "sizesend"
  /\ logQueue # <<>>
  /\ Len(sent) >= 1

\* C10: the stop flag is false at construction and never reset; the worker
\* terminates only from a state in which the flag is set and the queue is
\* empty, leaving an empty batch; once terminated it stays terminated.
C10_Lifecycle ==
  /\ ~stopWorker
  /\ wpc # "done"
  /\ [][/\ stopWorker => stopWorker'
        /\ wpc = "done" => wpc' = "done"
        /\ (wpc # "done" /\ wpc' = "done")
             => (stopWorker /\ logQueue = <<>> /\ logQueue' = <<>>
                 /\ batch' = <<>>)]_vars

C10_Witness ==
  /\ wpc = "done"
  /\ stopWorker
  /\ Len(sent) >= 2
  /\ sent[Len(sent)].trigger = "final"
  /\ logQueue # <<>>

\* C11: a batch is handed to sendBatch only by a step of the worker that
\* starts from no send in progress and puts the worker itself into the
\* send; a send in progress ends only by sendBatch returning; and while it
\* is in progress the worker drains nothing (the queue only grows, the
\* batch is the one being sent).
C11_SingleFlight ==
  [][/\ sent' # sent
          => (/\ ~Sending
              /\ Sending'
              /\ res' = "none"
              /\ Len(sent') = Len(sent) + 1
              /\ ppc' = ppc
              /\ spc' = spc)
     /\ (Sending /\ ~Sending')
          => (res # "none" /\ res' = "none" /\ sent' = sent)
     /\ Sending
          => (/\ Len(logQueue') >= Len(logQueue)
              /\ SubSeq(logQueue', 1, Len(logQueue)) = logQueue
              /\ batch = sent[Len(sent)].batch
              /\ batch' \in {batch, <<>>})]_vars

C11_Witness ==
  /\ wpc = "sizesend"
  /\ res = "none"
  /\ Len(sent) = 1
  /\ logQueue # <<>>
  /\ \E s \in Callers : spc[s] = "join"

\* ----------------------------------------------------------------------
\* C12: the attributes of a built event are the last writes in the order
\* reserved default, caller attributes as given, error attribute:
\* service.name is the caller's last value for that key if the caller
\* supplies it and the configured service name otherwise, every other
\* caller key has its last supplied value, "error" is the error's text
\* whenever an error detail is passed, and no other key is present.
LastIndex(attrs, k) ==
  LET S == {i \in 1..Len(attrs) : attrs[i].key = k}
  IN  IF S = {} THEN 0 ELSE CHOOSE i \in S : \A j \in S : j <= i

C12_LastWriteWins ==
  cpc = "built" =>
    \A k \in Keys :
      LET last == LastIndex(callAttrs, k)
      IN  attributes[k] =
            IF k = "error" /\ callErr # NoError THEN callErr
            ELSE IF last > 0 THEN callAttrs[last].value
            ELSE IF k = "service.name" THEN serviceName
            ELSE Absent

C12_Witness ==
  /\ cpc = "built"
  /\ callErr = "boom"
  /\ Len(callAttrs) = 2
  /\ callAttrs[1] = [key |-> "service.name", value |-> "a"]
  /\ callAttrs[2] = [key |-> "service.name", value |-> "b"]
  /\ attributes["service.name"] = "b"
  /\ attributes["error"] = "boom"

\* ----------------------------------------------------------------------
\* C13: the service.name attribute of every built event is the
\* configured service name, whatever attributes the caller passes.
C13_ReservedWins ==
  cpc = "built" => attributes["service.name"] = serviceName

\* ----------------------------------------------------------------------
\* C14: the target URL is scheme://endpoint/api/message with scheme http
\* when insecure and https otherwise (insecure with example.com gives
\* http://example.com/api/message); no step changes it, and every
\* transfer is set up with it.
C14_TargetUrl ==
  /\ [](/\ endpoint = (IF insecure THEN "http" ELSE "https") \o "://"
                         \o endpointArg \o "/api/message"
        /\ (insecure /\ endpointArg = "example.com")
             => endpoint = "http://example.com/api/message"
        /\ curlUrl \in {"", endpoint})
  /\ [][endpoint' = endpoint]_vars

C14_Witness ==
  /\ insecure
  /\ endpointArg = "example.com"
  /\ curlUrl = "http://example.com/api/message"
  /\ cpc = "built"

\* ----------------------------------------------------------------------
\* C15: the batch in progress never holds more than maxBatchSize events,
\* every batch handed to a transfer holds between 1 and maxBatchSize
\* events, and a batch that has reached maxBatchSize is in a send (no
\* drain step can act on it before the send has emptied it).
C15_BatchBound ==
  /\ Len(batch) <= maxBatchSize
  /\ \A i \in 1..Len(sent) :
       /\ Len(sent[i].batch) >= 1
       /\ Len(sent[i].batch) <= maxBatchSize
  /\ Len(batch) = maxBatchSize
       => (wpc = "sizesend" /\ ~ENABLED WorkerDrain)

C15_Witness ==
  /\ wpc = "sizesend"
  /\ maxBatchSize = 2
  /\ Len(batch) = 2
  /\ logQueue # <<>>
  /\ ~stopWorker

\* ----------------------------------------------------------------------
\* C16: the sent batches in send order, then the batch in progress, then
\* the queue, are together the events in the order of their pushes; the
\* pushed events are pairwise distinct, so every event is in exactly one
\* of the three places and none is dropped.  While a send runs the batch
\* in progress is the batch being sent.
C16_FifoConservation ==
  /\ \A i, j \in 1..Len(enqueued) : enqueued[i] = enqueued[j] => i = j
  /\ SentSeq \o (IF Sending THEN <<>> ELSE batch) \o logQueue = enqueued
  /\ Sending => batch = sent[Len(sent)].batch

C16_Witness ==
  /\ sent # <<>>
  /\ ~Sending
  /\ batch # <<>>
  /\ logQueue # <<>>
  /\ wpc # "done"

\* ----------------------------------------------------------------------
\* C20: once the worker has terminated it stays terminated, no batch is
\* handed to a send and nothing is taken from the queue; a log call
\* (noop off) can still be made and its push appends the event to the
\* queue, whether or not the stop flag is set.
C20_AfterTermination ==
  /\ [](wpc = "done" =>
          \A p \in Producers :
            /\ (ppc[p] = "idle" /\ calls < MaxLogs) => ENABLED LogCall(p)
            /\ ppc[p] = "push" => ENABLED Push(p))
  /\ [][wpc = "done" =>
          /\ wpc' = "done"
          /\ sent' = sent
          /\ batch' = batch
          /\ Len(logQueue') >= Len(logQueue)
          /\ SubSeq(logQueue', 1, Len(logQueue)) = logQueue
          /\ \A p \in Producers :
               (ppc[p] = "push" /\ ppc'[p] = "notify")
                 => (/\ Len(logQueue') = Len(logQueue) + 1
                     /\ enqueued' = Append(enqueued, logQueue'[Len(logQueue')]))]_vars

C20_Witness ==
  /\ wpc = "done"
  /\ Len(logQueue) >= 2
  /\ returned = calls
  /\ \A s \in Callers : spc[s] = "returned"

\* ----------------------------------------------------------------------
\* C17: with the worker scheduled fairly, the clock going on and
\* transfers that return, every event pushed while the worker has not
\* made its terminal check is eventually part of a batch handed to a
\* send, with or without shutdown(); and the worker does not stay blocked
\* in its wait while the queue is non-empty or the stop flag is set.
C17_NoEventLoss ==
  /\ \A i \in 1..MaxLogs :
       (i \in Range(enqueued) /\ wpc # "done") ~> (i \in SentEvents)
  /\ (wpc = "blocked" /\ WaitPred) ~> (wpc # "blocked")

C17_Witness ==
  /\ preShutdown = -1
  /\ wpc = "blocked"
  /\ Len(sent) = 1
  /\ sent[1].trigger = "time"
  /\ Len(enqueued) = 2
  /\ logQueue = <<2>>

\* ----------------------------------------------------------------------
\* C18: a batch in progress that is not empty is handed to the sender
\* before the worker has waited more than BatchInterval ticks since the
\* batch became non-empty (lock and scheduling delays not counted).
C18_AgeBound ==
  (batch # <<>> /\ ~Sending) => batchAge <= BatchInterval

\* ----------------------------------------------------------------------
\* C19: once the stop flag is set, the worker eventually terminates and
\* the shutdown() call that set the flag returns, whatever the producers
\* do.
C19_ShutdownTerminates ==
  stopWorker ~> (/\ wpc = "done"
                 /\ \E s \in Callers : stopper = s /\ spc[s] = "returned")

====
